---------------------------- MODULE Spec2Model ----------------------------
(***************************************************************************)
(* Food Composition Tool (TKPI + AKG), src/app.py.                         *)
(*                                                                         *)
(* The Streamlit script is re-run from top to bottom on every user         *)
(* interaction.  st.session_state (menus, rows, yield_df, ret_df) and the  *)
(* widget values survive between runs; everything else is recomputed.      *)
(* One action of the model is one run of the script: the button handler    *)
(* that fired, followed by the rest of the script (RunScript).             *)
(*                                                                         *)
(* Numbers are Python floats in the source.  They are modelled as exact    *)
(* rationals <<n, d>> in lowest terms (d > 0); NaN is the pair <<0, 0>>.   *)
(* Rounding of binary floating point is not modelled.                      *)
(***************************************************************************)
EXTENDS Integers, Sequences, FiniteSets, TLC

VARIABLES
    menus,      \* st.session_state.menus : sequence of menu names
    rows,       \* st.session_state.rows  : sequence of entries
    tkpi_df,    \* the loaded TKPI table
    yield_df,   \* st.session_state.yield_df
    ret_df,     \* st.session_state.ret_df
    sel_row,    \* value of the "sel_row_edit" selectbox (a label)
    mode_akg,   \* value of the "Sumber asupan harian" radio
    selected,   \* value of the "Pilih menu" multiselect
    manual,     \* values of the manual intake number inputs
    view,       \* what the last run of the script produced
    last_op,    \* the handler that fired in the last run, with its arguments
    twice,      \* the last run fired the same handler with the same arguments as the run before
    q           \* last direct call of a helper function: its arguments and result

vars == <<menus, rows, tkpi_df, yield_df, ret_df, sel_row, mode_akg, selected,
          manual, view, last_op, twice, q>>

-----------------------------------------------------------------------------
(* Bounds of the model *)

MaxMenus == 2
MaxRows == 2
MaxTabLen == 2

-----------------------------------------------------------------------------
(* Floats as exact rationals *)

Abs(n) == IF n < 0 THEN -n ELSE n

RECURSIVE Gcd(_, _)
Gcd(a, b) == IF b = 0 THEN a ELSE Gcd(b, a % b)

Rat(n, d) ==
    LET g == Gcd(Abs(n), d)
    IN  <<n \div g, d \div g>>

NaN == <<0, 0>>
\* the result of an expression that raised ZeroDivisionError
ZeroDivisionError == <<1, 0>>
IsNaN(x) == x = NaN
Raised(x) == x = ZeroDivisionError
Num(n) == <<n, 1>>

\* the result when an operand is no number: an exception stays one, NaN stays NaN
NoNumber(x, y) == IF Raised(x) \/ Raised(y) THEN ZeroDivisionError ELSE NaN

RMul(x, y) == IF x[2] = 0 \/ y[2] = 0 THEN NoNumber(x, y)
              ELSE Rat(x[1] * y[1], x[2] * y[2])
\* float division: dividing by 0.0 raises
RDiv(x, y) == IF x[2] = 0 \/ y[2] = 0 THEN NoNumber(x, y)
              ELSE IF y[1] = 0 THEN ZeroDivisionError
              ELSE IF y[1] < 0 THEN Rat(-(x[1] * y[2]), x[2] * (-y[1]))
              ELSE Rat(x[1] * y[2], x[2] * y[1])
RAdd(x, y) == IF x[2] = 0 \/ y[2] = 0 THEN NoNumber(x, y)
              ELSE Rat(x[1] * y[2] + y[1] * x[2], x[2] * y[2])
RSub(x, y) == IF x[2] = 0 \/ y[2] = 0 THEN NoNumber(x, y)
              ELSE Rat(x[1] * y[2] - y[1] * x[2], x[2] * y[2])
\* comparisons with NaN are False, as in Python
RLt(x, y) == x[2] # 0 /\ y[2] # 0 /\ x[1] * y[2] < y[1] * x[2]
RLe(x, y) == x[2] # 0 /\ y[2] # 0 /\ x[1] * y[2] <= y[1] * x[2]
RAbs(x) == <<Abs(x[1]), x[2]>>

-----------------------------------------------------------------------------
(* Python dicts and lists as explicit values: FnOf builds the dict with the  *)
(* keys S, SeqOf the list of length n, each item computed once               *)

RECURSIVE FnOf(_, _)
FnOfFrom(f, S, k) == (k :> f[k]) @@ FnOf(f, S \ {k})
FnOf(f, S) == IF S = {} THEN <<>> ELSE FnOfFrom(f, S, CHOOSE k \in S : TRUE)

RECURSIVE SeqOf(_, _)
SeqOf(f, n) == IF n = 0 THEN <<>> ELSE Append(SeqOf(f, n - 1), f[n])

SeqToSet(s) == {s[i] : i \in 1..Len(s)}

-----------------------------------------------------------------------------
(* Strings: str.upper(), str.lower() and str.strip() on the strings that    *)
(* occur in the model                                                       *)

UpperMap ==
    ("segar" :> "SEGAR") @@ ("Segar" :> "SEGAR") @@ ("direbus" :> "DIREBUS")
    @@ ("Direbus" :> "DIREBUS") @@ (" direbus " :> " DIREBUS ") @@ ("tumis" :> "TUMIS")
    @@ ("Tumis" :> "TUMIS")
    @@ ("digoreng" :> "DIGORENG") @@ ("panggang" :> "PANGGANG") @@ ("kukus" :> "KUKUS")
    @@ ("Protein" :> "PROTEIN") @@ ("protein" :> "PROTEIN") @@ ("all" :> "ALL")
    @@ ("All" :> "ALL") @@ ("Folat" :> "FOLAT") @@ ("Vit A RE" :> "VIT A RE")
    @@ ("Vit RAE" :> "VIT RAE") @@ ("B-KAR (mcg)" :> "B-KAR (MCG)")
    @@ ("KARTOTAL (mcg)" :> "KARTOTAL (MCG)")

\* s.upper(): a string without lower-case letters is its own upper case
UpperStr(s) == IF s \in DOMAIN UpperMap THEN UpperMap[s] ELSE s

StripMap ==
    (" " :> "") @@ (" a" :> "a") @@ ("a " :> "a") @@ (" b" :> "b")
    @@ (" direbus " :> "direbus") @@ (" DIREBUS " :> "DIREBUS")

\* s.strip(): a string without outer blanks is left as it is
StripStr(s) == IF s \in DOMAIN StripMap THEN StripMap[s] ELSE s

\* norm(s) = str(s).strip().upper()
norm(s) == UpperStr(StripStr(s))

-----------------------------------------------------------------------------
(* Factor tables *)

YRow(m, y) == [Metode |-> m, Yield |-> y]
RRow(m, n, r) == [Metode |-> m, Nutrien |-> n, Retensi |-> r]

default_yield_table ==
    << YRow("segar", Num(1)), YRow("direbus", Num(1)), YRow("tumis", Rat(90, 100)),
       YRow("digoreng", Rat(85, 100)), YRow("panggang", Rat(85, 100)) >>

default_retention_table ==
    << RRow("segar", "ALL", Num(1)),
       RRow("direbus", "PROTEIN", Rat(98, 100)), RRow("direbus", "SERAT", Rat(95, 100)),
       RRow("direbus", "VIT_C", Rat(60, 100)), RRow("direbus", "VIT A RE", Rat(90, 100)),
       RRow("direbus", "VIT RAE", Rat(90, 100)), RRow("direbus", "KALIUM", Rat(90, 100)),
       RRow("direbus", "KALSIUM", Rat(98, 100)), RRow("direbus", "BESI", Rat(98, 100)),
       RRow("direbus", "SENG", Rat(98, 100)),
       RRow("tumis", "PROTEIN", Rat(97, 100)), RRow("tumis", "SERAT", Rat(95, 100)),
       RRow("tumis", "VIT_C", Rat(70, 100)), RRow("tumis", "VIT A RE", Rat(90, 100)),
       RRow("tumis", "VIT RAE", Rat(90, 100)), RRow("tumis", "KALIUM", Rat(95, 100)),
       RRow("digoreng", "PROTEIN", Rat(95, 100)), RRow("digoreng", "SERAT", Rat(90, 100)),
       RRow("digoreng", "VIT_C", Rat(65, 100)), RRow("digoreng", "VIT A RE", Rat(85, 100)),
       RRow("digoreng", "VIT RAE", Rat(85, 100)),
       RRow("panggang", "PROTEIN", Rat(97, 100)), RRow("panggang", "SERAT", Rat(95, 100)),
       RRow("panggang", "VIT_C", Rat(70, 100)), RRow("panggang", "VIT A RE", Rat(88, 100)),
       RRow("panggang", "VIT RAE", Rat(88, 100)) >>

\* float(sub["Yield"].iloc[0]) if len(sub) else 1.0
first_yield(sub) == IF Len(sub) > 0 THEN sub[1].Yield ELSE Num(1)

\* A slip that takes the whole table for the rows of the method.
yield_rows_All(ydf, m) == ydf

\* yield_df[yield_df["Metode"].str.upper()==norm(method)]
yield_rows(ydf, m) ==
    LET IsM(r) == UpperStr(r.Metode) = m
    IN  SelectSeq(ydf, IsM)

\* get_yield(yield_df, method)
get_yield(ydf, method) ==
    IF ydf = <<>> THEN Num(1) ELSE first_yield(yield_rows(ydf, norm(method)))

\* ret_df[(ret_df["Metode"].str.upper()==m) & (ret_df["Nutrien"].str.upper()==nk)]
retention_rows(rdf, m, nk) ==
    LET Is(r) == UpperStr(r.Metode) = m /\ UpperStr(r.Nutrien) = nk
    IN  SelectSeq(rdf, Is)

\* A slip that drops the wildcard step of the lookup.
first_retention_NoWildcard(sub, sub_all) ==
    IF Len(sub) > 0 THEN sub[1].Retensi ELSE Num(1)

\* the factor of the first exact row, else of the first "ALL" row, else 1.0
first_retention(sub, sub_all) ==
    IF Len(sub) > 0 THEN sub[1].Retensi
    ELSE IF Len(sub_all) > 0 THEN sub_all[1].Retensi
    ELSE Num(1)

\* get_retention(ret_df, method, nutrient_key_upper)
get_retention(rdf, method, nutrient_key_upper) ==
    IF rdf = <<>> THEN Num(1)
    ELSE first_retention(retention_rows(rdf, norm(method), nutrient_key_upper),
                         retention_rows(rdf, norm(method), "ALL"))

\* the call site of the correction loop: get_retention(ret_df, method, norm(key))
retention(rdf, method, key) == get_retention(rdf, method, norm(key))

-----------------------------------------------------------------------------
(* The TKPI reference table *)

\* A cell of the loaded sheet: a number, a text that is no number, or empty.
NumCell(n) == [k |-> "num", v |-> Num(n)]
TxtCell == [k |-> "txt", v |-> NaN]
NanCell == [k |-> "nan", v |-> NaN]

\* pd.to_numeric(x, errors="coerce")
to_numeric(cell) == IF cell.k = "num" THEN cell.v ELSE NaN

\* the sidebar's column mapping, left at its default values: key -> same header
col_map(key) == key

\* "TKPI 2017.xlsx": every ingredient, with an edible-portion column
TkpiDefault ==
    [ columns |-> {"NAMA BAHAN MENTAH", "BDD", "ENERGI", "PROTEIN", "VIT_C"},
      recs |-> << [name |-> "ayam",
                   cells |-> [BDD |-> NumCell(90), ENERGI |-> NumCell(150),
                              PROTEIN |-> NumCell(20), VIT_C |-> NanCell]],
                  [name |-> "bayam",
                   cells |-> [BDD |-> TxtCell, ENERGI |-> NumCell(220),
                              PROTEIN |-> TxtCell, VIT_C |-> NumCell(40)]] >> ]

\* an uploaded newer version: no BDD column, and "bayam" is gone
TkpiUpload ==
    [ columns |-> {"NAMA BAHAN MENTAH", "ENERGI", "PROTEIN"},
      recs |-> << [name |-> "ayam",
                   cells |-> [ENERGI |-> NumCell(160), PROTEIN |-> NumCell(25)]] >> ]

\* an uploaded sheet none of whose nutrient columns is an AKG nutrient
TkpiMicro ==
    [ columns |-> {"NAMA BAHAN MENTAH", "BDD", "VIT_C"},
      recs |-> << [name |-> "ayam", cells |-> [BDD |-> NumCell(90), VIT_C |-> NanCell]],
                  [name |-> "bayam", cells |-> [BDD |-> NumCell(70), VIT_C |-> NumCell(40)]] >> ]

\* an uploaded sheet without a BDD column
TkpiPlain ==
    [ columns |-> {"NAMA BAHAN MENTAH", "ENERGI", "AIR"},
      recs |-> << [name |-> "ayam", cells |-> [ENERGI |-> NumCell(150), AIR |-> NanCell]],
                  [name |-> "bayam", cells |-> [ENERGI |-> NumCell(220), AIR |-> NanCell]] >> ]

TkpiTables == {TkpiDefault, TkpiUpload, TkpiMicro, TkpiPlain}

\* tkpi_df[name_col] as a set, and ingredients_list (its order is not used)
TkpiNames(df) == {df.recs[i].name : i \in 1..Len(df.recs)}
ingredients_list(df) == TkpiNames(df)

\* tkpi_idx.loc[bahan]
TkpiLoc(df, bahan) == (CHOOSE i \in 1..Len(df.recs) : df.recs[i].name = bahan)

\* tkpi_value(row, col)
tkpi_value(row, col) ==
    IF col \in DOMAIN row.cells THEN to_numeric(row.cells[col]) ELSE NaN

candidate_keys ==
    << "ENERGI", "PROTEIN", "LEMAK", "KH", "AIR", "VIT_C",
       "KALSIUM", "BESI", "SENG",
       "THIAMIN", "RIBOFLAVIN", "NIASIN", "B6", "Folat", "B12",
       "Vit A RE", "Vit RAE", "RETINOL (RE)", "B-KAR (mcg)", "KARTOTAL (mcg)",
       "KALIUM", "NATRIUM" >>

\* available_nutrients: the candidate keys whose mapped column is in the sheet
available_nutrients(df) ==
    LET Has(key) == col_map(key) \in df.columns
    IN  SelectSeq(candidate_keys, Has)

-----------------------------------------------------------------------------
(* Correction of one entry *)

\* grams_from(value, unit)
grams_from(value, unit) ==
    IF unit \in {"g", "gram", "grams"} THEN Num(value)
    ELSE IF unit \in {"kg", "kilogram", "kilograms"} THEN Num(value * 1000)
    ELSE Num(value)

\* bdd_val: the BDD cell, or 100.0 when the column or the number is missing
bdd_value(df, tk) ==
    IF col_map("BDD") \in df.columns
    THEN IF IsNaN(tkpi_value(tk, col_map("BDD"))) THEN Num(100)
         ELSE tkpi_value(tk, col_map("BDD"))
    ELSE Num(100)

\* w_edible = w_in * (bdd_val/100.0)
edible_weight(w_in, bdd_val) == RMul(w_in, RDiv(bdd_val, Num(100)))

\* A slip that leaves the cooking yield out of the final weight.
final_weight_NoYield(w_edible, y) == w_edible

\* w_final = w_edible * y
final_weight(w_edible, y) == RMul(w_edible, y)

\* A slip that counts a missing per-100 g value as zero.
corrected_value_ZeroForMissing(per100, w_final, rdf, method, key) ==
    IF IsNaN(per100) THEN Num(0)
    ELSE RMul(RMul(RDiv(per100, Num(100)), w_final), retention(rdf, method, key))

\* out[key]: nan for a missing per-100 g value, else (per100/100.0) * w_final * rf
corrected_value(per100, w_final, rdf, method, key) ==
    IF IsNaN(per100) THEN NaN
    ELSE RMul(RMul(RDiv(per100, Num(100)), w_final), retention(rdf, method, key))

\* the dict out of one entry, from the weights and factors computed before it
out_row(df, rdf, r, tk, w_in, bdd_val, w_edible, y, w_final) ==
    [ NamaMenu |-> r.NamaMenu, Bahan |-> r.Bahan, Metode |-> r.Metode,
      BeratInput_g |-> w_in, BDD |-> bdd_val, BeratEdible |-> w_edible,
      Yield |-> y, BeratAkhir |-> w_final,
      nut |-> FnOf([key \in SeqToSet(available_nutrients(df)) |->
                      corrected_value(tkpi_value(tk, col_map(key)), w_final, rdf,
                                      r.Metode, key)],
                   SeqToSet(available_nutrients(df))) ]

row_with_weights(df, rdf, r, tk, w_in, bdd_val, w_edible, y) ==
    out_row(df, rdf, r, tk, w_in, bdd_val, w_edible, y, final_weight(w_edible, y))

row_with_factors(df, rdf, r, tk, w_in, bdd_val, y) ==
    row_with_weights(df, rdf, r, tk, w_in, bdd_val, edible_weight(w_in, bdd_val), y)

row_of_record(df, ydf, rdf, r, tk) ==
    row_with_factors(df, rdf, r, tk, grams_from(r.BeratInput, r.Unit),
                     bdd_value(df, tk), get_yield(ydf, r.Metode))

\* body of the loop over st.session_state.rows, for an entry found in the table
CorrectRow(df, ydf, rdf, r) ==
    row_of_record(df, ydf, rdf, r, df.recs[TkpiLoc(df, r.Bahan)])

\* the entries whose ingredient is in the table, and the others
found_rows(df, rws) ==
    LET Found(r) == r.Bahan \in TkpiNames(df)
    IN  SelectSeq(rws, Found)

missing_rows(df, rws) ==
    LET Missing(r) == r.Bahan \notin TkpiNames(df)
    IN  SelectSeq(rws, Missing)

correct_all(df, ydf, rdf, found) ==
    SeqOf([i \in 1..Len(found) |-> CorrectRow(df, ydf, rdf, found[i])], Len(found))

bahan_of(miss) == SeqOf([i \in 1..Len(miss) |-> miss[i].Bahan], Len(miss))

\* the loop: entries whose ingredient is not in the table are skipped with a warning
calc_rows(df, ydf, rdf, rws) == correct_all(df, ydf, rdf, found_rows(df, rws))

calc_warnings(df, rws) == bahan_of(missing_rows(df, rws))

-----------------------------------------------------------------------------
(* Per-menu totals: groupby("Nama Menu")[nutr_cols_present].sum()           *)

\* the menu names of the model, in sorted order (groupby sorts its keys)
MenuOrder == <<"a", "b">>

\* A slip that lets a missing value poison the sum (skipna off).
RECURSIVE NanSum_Propagate(_)
NanSum_Propagate(xs) ==
    IF Len(xs) = 0 THEN Num(0)
    ELSE RAdd(NanSum_Propagate(SubSeq(xs, 1, Len(xs) - 1)), xs[Len(xs)])

\* Series.sum(): missing values are skipped, the empty sum is 0
RECURSIVE NanSum(_)
NanSum(xs) ==
    IF Len(xs) = 0 THEN Num(0)
    ELSE IF IsNaN(xs[Len(xs)]) THEN NanSum(SubSeq(xs, 1, Len(xs) - 1))
    ELSE RAdd(NanSum(SubSeq(xs, 1, Len(xs) - 1)), xs[Len(xs)])

\* the values of one nutrient column, in row order
column_values(df, c) == SeqOf([i \in 1..Len(df) |-> df[i].nut[c]], Len(df))

\* the rows of one menu
group_rows(per_bahan, m) ==
    LET InM(r) == r.NamaMenu = m
    IN  SelectSeq(per_bahan, InM)

\* the distinct menu names of the corrected rows, sorted
group_names(per_bahan) ==
    LET Occurs(m) == \E i \in 1..Len(per_bahan) : per_bahan[i].NamaMenu = m
    IN  SelectSeq(MenuOrder, Occurs)

nutr_cols_present(per_bahan) ==
    IF Len(per_bahan) = 0 THEN {} ELSE DOMAIN per_bahan[1].nut

group_total(grp, m, cols) ==
    [NamaMenu |-> m, nut |-> FnOf([c \in cols |-> NanSum(column_values(grp, c))], cols)]

group_totals(per_bahan, names, cols) ==
    SeqOf([i \in 1..Len(names) |->
             group_total(group_rows(per_bahan, names[i]), names[i], cols)], Len(names))

df_per_menu(per_bahan) ==
    group_totals(per_bahan, group_names(per_bahan), nutr_cols_present(per_bahan))

-----------------------------------------------------------------------------
(* Intake derived from the per-menu totals *)

AKG_COLS == <<"Energi", "Protein", "Lemak_total", "Omega3", "Omega6",
              "Karbohidrat", "Serat", "Air">>
AkgKeys == SeqToSet(AKG_COLS)

\* asupan default
asupan_default ==
    [ Energi |-> Num(2000), Protein |-> Num(65), Lemak_total |-> Num(70),
      Omega3 |-> Rat(12, 10), Omega6 |-> Num(12), Karbohidrat |-> Num(300),
      Serat |-> Num(28), Air |-> Num(1800) ]

LowerMap ==
    ("Nama Menu" :> "nama menu") @@ ("ENERGI" :> "energi") @@ ("PROTEIN" :> "protein")
    @@ ("LEMAK" :> "lemak") @@ ("KH" :> "kh") @@ ("AIR" :> "air") @@ ("VIT_C" :> "vit_c")
    @@ ("Kelompok" :> "kelompok") @@ ("JK" :> "jk") @@ ("Energi" :> "energi")
    @@ ("Protein" :> "protein") @@ ("Lemak_total" :> "lemak_total")
    @@ ("Omega3" :> "omega3") @@ ("Omega6" :> "omega6")
    @@ ("Karbohidrat" :> "karbohidrat") @@ ("Serat" :> "serat") @@ ("Air" :> "air")

\* s.lower(): a string without upper-case letters is its own lower case
LowerStr(s) == IF s \in DOMAIN LowerMap THEN LowerMap[s] ELSE s

\* aliases[k], with the entries appended after the dictionary literal
aliases(k) ==
    CASE k = "Energi" -> <<"energi", "energi (kkal)", "energy", "kcal", "energi_total",
                           "energi total", "energi (kcal)", "energi">>
      [] k = "Protein" -> <<"protein", "protein (g)", "protein_total", "protein total",
                            "protein">>
      [] k = "Lemak_total" -> <<"lemak_total", "lemak", "lemak (g)", "fat", "total fat",
                                "lemak">>
      [] k = "Omega3" -> <<"omega3", "omega 3", "n-3", "omega-3">>
      [] k = "Omega6" -> <<"omega6", "omega 6", "n-6", "omega-6">>
      [] k = "Karbohidrat" -> <<"karbohidrat", "kh", "karbohidrat (g)", "carb",
                                "carbohydrate", "kh">>
      [] k = "Serat" -> <<"serat", "serat (g)", "fiber", "dietary fiber", "fibre">>
      [] k = "Air" -> <<"air", "air (ml)", "air (g)", "water", "water (ml)", "water (g)",
                        "air">>

\* the columns of a per-menu frame, in order
menu_columns(df) ==
    LET Present(c) == c \in nutr_cols_present(df)
    IN  <<"Nama Menu">> \o SelectSeq(candidate_keys, Present)

\* the last position of a set of positions
last_of(hits) == CHOOSE i \in hits : \A j \in hits : j <= i

\* lower_map.get(a): a later column of the same lower-case name replaces an earlier one
lower_map_hit(cols, hits) == IF hits = {} THEN "" ELSE cols[last_of(hits)]

lower_map_get(cols, a) ==
    lower_map_hit(cols, {i \in 1..Len(cols) : LowerStr(cols[i]) = a})

\* A slip that reads the first row of the column instead of summing it.
column_sum_First(df, col) ==
    IF col = "Nama Menu" \/ Len(df) = 0 THEN Num(0) ELSE df[1].nut[col]

\* pd.to_numeric(df[col], errors="coerce").sum()
column_sum(df, col) ==
    IF col = "Nama Menu" THEN Num(0) ELSE NanSum(column_values(df, col))

\* the aliases that name a column, in the order of the alias list
alias_hits(cols, alias_list) ==
    LET Hit(a) == lower_map_get(cols, LowerStr(a)) # ""
    IN  SelectSeq(alias_list, Hit)

\* A slip that adds up the columns of all the aliases that name a column.
first_alias_sum_AddAll(df, cols, hits) ==
    IF Len(hits) = 0 THEN NaN
    ELSE NanSum(SeqOf([i \in 1..Len(hits) |->
                         column_sum(df, lower_map_get(cols, LowerStr(hits[i])))],
                      Len(hits)))

first_alias_sum(df, cols, hits) ==
    IF Len(hits) = 0 THEN NaN
    ELSE column_sum(df, lower_map_get(cols, LowerStr(hits[1])))

\* sum_by_alias(df, alias_list)
sum_by_alias(df, cols, alias_list) ==
    first_alias_sum(df, cols, alias_hits(cols, alias_list))

\* A slip that takes an empty selection for no menu at all.
sel_df_EmptyIsNone(per_menu, sel) ==
    LET InSel(r) == r.NamaMenu \in sel
    IN  SelectSeq(per_menu, InSel)

\* sel_df: the selected menus, or all menus when none is selected
sel_df(per_menu, sel) ==
    LET InSel(r) == r.NamaMenu \in sel
    IN  IF sel # {} THEN SelectSeq(per_menu, InSel) ELSE per_menu

\* tot of every AKG key
alias_totals(sdf, cols) ==
    FnOf([k \in AkgKeys |-> sum_by_alias(sdf, cols, aliases(k))], AkgKeys)

\* asupan after the first loop: a total that is not NaN replaces the default
fill_found(tot) ==
    FnOf([k \in AkgKeys |-> IF ~IsNaN(tot[k]) THEN tot[k] ELSE asupan_default[k]], AkgKeys)

\* the second loop: a key that is absent or NaN becomes 0.0
fill_zero(filled) ==
    FnOf([k \in AkgKeys |->
            IF k \notin DOMAIN filled \/ IsNaN(filled[k]) THEN Num(0) ELSE filled[k]],
         AkgKeys)

fill_asupan(tot) ==
    IF \E k \in AkgKeys : ~IsNaN(tot[k]) THEN fill_zero(fill_found(tot))
    ELSE fill_found(tot)

\* asupan in mode "Dari Per Menu"
asupan_from_menus(per_menu, sel) ==
    IF Len(per_menu) = 0 THEN asupan_default
    ELSE fill_asupan(alias_totals(sel_df(per_menu, sel), menu_columns(per_menu)))

\* asupan after the "Sumber asupan harian" branch
asupan_of(mode, per_menu, sel, man) ==
    IF mode = "Dari Per Menu" THEN asupan_from_menus(per_menu, sel)
    ELSE FnOf([k \in AkgKeys |-> man[k]], AkgKeys)

-----------------------------------------------------------------------------
(* AKG reference and adequacy *)

AkgRow(g, jk, e, p, l, o3, o6, kh, sr, a) ==
    [ Kelompok |-> g, JK |-> jk, Energi |-> e, Protein |-> p, Lemak_total |-> l,
      Omega3 |-> o3, Omega6 |-> o6, Karbohidrat |-> kh, Serat |-> sr, Air |-> a ]

AKG_GROUPS ==
    << AkgRow("Anak 7-9 th", "NA", Num(1650), Num(40), Num(55), Rat(9, 10), Num(10),
              Num(250), Num(23), Num(1650)),
       AkgRow("Laki-laki 10-12 th", "L", Num(2000), Num(50), Num(65), Rat(12, 10), Num(12),
              Num(300), Num(28), Num(1850)),
       AkgRow("Laki-laki 13-15 th", "L", Num(2400), Num(70), Num(80), Rat(16, 10), Num(16),
              Num(350), Num(34), Num(2100)),
       AkgRow("Laki-laki 16-18 th", "L", Num(2650), Num(75), Num(85), Rat(16, 10), Num(16),
              Num(400), Num(37), Num(2300)),
       AkgRow("Perempuan 10-12 th", "P", Num(1900), Num(55), Num(65), Num(1), Num(10),
              Num(280), Num(27), Num(1850)),
       AkgRow("Perempuan 13-15 th", "P", Num(2050), Num(65), Num(70), Rat(11, 10), Num(11),
              Num(300), Num(29), Num(2100)),
       AkgRow("Perempuan 16-18 th", "P", Num(2100), Num(65), Num(70), Rat(11, 10), Num(11),
              Num(300), Num(29), Num(2150)) >>

\* akg_row.index
AkgIndex == <<"Kelompok", "JK">> \o AKG_COLS

\* A slip that divides without looking at the target.
Pct_Unguarded(val, tgt) == RMul(RDiv(val, tgt), Num(100))

\* float("nan") if (pd.isna(val) or tgt==0) else (val/tgt*100.0)
Pct(val, tgt) ==
    IF IsNaN(val) \/ tgt = Num(0) THEN NaN ELSE RMul(RDiv(val, tgt), Num(100))

\* val = float(intake.get(c, float("nan")))
intake_get(intake, c) == IF c \in DOMAIN intake THEN intake[c] ELSE NaN

\* adequacy_pct(intake, akg_row)
adequacy_pct(intake, akg_row) ==
    FnOf([c \in AkgKeys |-> Pct(intake_get(intake, c), akg_row[c])], AkgKeys)

\* compute_akg_all(intake, ref)
compute_akg_all(intake, ref) ==
    SeqOf([i \in 1..Len(ref) |->
             [Kelompok |-> ref[i].Kelompok, pct |-> adequacy_pct(intake, ref[i])]], Len(ref))

-----------------------------------------------------------------------------
(* Gap rows and the narrative *)

\* _safe_get(sr, k): float() of a text raises and the default nan is returned
safe_get(sr, k) ==
    IF k \notin DOMAIN sr THEN NaN
    ELSE IF k \in {"Kelompok", "JK"} THEN NaN
    ELSE sr[k]

\* A slip that takes the gap as target minus intake.
gap_row_Reversed(k, tgt, val) ==
    [ Nutrien |-> k, Target |-> tgt, Asupan |-> val,
      Pencapaian |-> IF IsNaN(tgt) \/ tgt = Num(0) THEN NaN
                     ELSE RMul(RDiv(val, tgt), Num(100)),
      Gap |-> IF IsNaN(tgt) \/ tgt = Num(0) THEN NaN ELSE RSub(tgt, val) ]

\* one row of the gap table
gap_row(k, tgt, val) ==
    [ Nutrien |-> k, Target |-> tgt, Asupan |-> val,
      Pencapaian |-> IF IsNaN(tgt) \/ tgt = Num(0) THEN NaN
                     ELSE RMul(RDiv(val, tgt), Num(100)),
      Gap |-> IF IsNaN(tgt) \/ tgt = Num(0) THEN NaN ELSE RSub(val, tgt) ]

\* A slip that makes a row for every key of the AKG row but the group label.
gap_keys_AllRef(asupan_dict) ==
    LET Keep(k) == LowerStr(k) # "kelompok"
    IN  SelectSeq(AkgIndex, Keep)

\* the keys of the AKG row that the intake has too, the group label left out
gap_keys(asupan_dict) ==
    LET Keep(k) == LowerStr(k) # "kelompok" /\ k \in DOMAIN asupan_dict
    IN  SelectSeq(AkgIndex, Keep)

gap_rows(asupan_dict, akg_row, keys) ==
    SeqOf([i \in 1..Len(keys) |->
             gap_row(keys[i], safe_get(akg_row, keys[i]), safe_get(asupan_dict, keys[i]))],
          Len(keys))

\* compute_gap_series(asupan_dict, akg_row)
compute_gap_series(asupan_dict, akg_row) ==
    gap_rows(asupan_dict, akg_row, gap_keys(asupan_dict))

\* A slip that puts the lower boundary into the deficit class.
def_status_LowerExclusive(p) ==
    IF IsNaN(p) THEN "NA"
    ELSE IF RLe(p, Num(90)) THEN "Defisit"
    ELSE IF RLe(p, Num(120)) THEN "Memadai"
    ELSE "Surplus"

\* def_status
def_status(p) ==
    IF IsNaN(p) THEN "NA"
    ELSE IF RLt(p, Num(90)) THEN "Defisit"
    ELSE IF RLe(p, Num(120)) THEN "Memadai"
    ELSE "Surplus"

\* df["Status"] = df["Pencapaian(%)"].apply(def_status)
with_status(df_gap) ==
    SeqOf([i \in 1..Len(df_gap) |->
             [ Nutrien |-> df_gap[i].Nutrien, Target |-> df_gap[i].Target,
               Asupan |-> df_gap[i].Asupan, Pencapaian |-> df_gap[i].Pencapaian,
               Gap |-> df_gap[i].Gap, Status |-> def_status(df_gap[i].Pencapaian) ]],
          Len(df_gap))

\* preferred_order.index(x) if x in preferred_order else 999
preferred_ord(x) ==
    IF \E i \in 1..Len(AKG_COLS) : AKG_COLS[i] = x
    THEN (CHOOSE i \in 1..Len(AKG_COLS) : AKG_COLS[i] = x) - 1
    ELSE 999

\* the order in which a stable sort by keys lists the positions rem
RECURSIVE AscOrder(_, _)
AscFrom(keys, rem, i) == <<i>> \o AscOrder(keys, rem \ {i})
AscOrder(keys, rem) ==
    IF rem = {} THEN <<>>
    ELSE AscFrom(keys, rem, CHOOSE i \in rem : \A j \in rem :
                                /\ ~RLt(keys[j], keys[i])
                                /\ (keys[j] = keys[i] => i <= j))

RECURSIVE DescOrder(_, _)
DescFrom(keys, rem, i) == <<i>> \o DescOrder(keys, rem \ {i})
DescOrder(keys, rem) ==
    IF rem = {} THEN <<>>
    ELSE DescFrom(keys, rem, CHOOSE i \in rem : \A j \in rem :
                                 /\ ~RLt(keys[i], keys[j])
                                 /\ (keys[j] = keys[i] => i <= j))

\* the rows of df in the order ord
reorder(df, ord) == SeqOf([i \in 1..Len(df) |-> df[ord[i]]], Len(df))

ord_keys(df) == SeqOf([i \in 1..Len(df) |-> Num(preferred_ord(df[i].Nutrien))], Len(df))

\* df.sort_values(["_ord","Nutrien"]): the keys of an AKG row outside the preferred
\* order are "JK" alone, so the second sort column never decides
sort_preferred(df) == reorder(df, AscOrder(ord_keys(df), 1..Len(df)))

\* d["dev"] = (d["Pencapaian(%)"] - 100).abs()
dev_keys(d) ==
    SeqOf([i \in 1..Len(d) |-> RAbs(RSub(d[i].Pencapaian, Num(100)))], Len(d))

\* A slip that sorts the nearest to 100 % first.
sort_dev_Ascending(d) == reorder(d, AscOrder(dev_keys(d), 1..Len(d)))

\* d.sort_values("dev", ascending=False)
sort_dev(d) == reorder(d, DescOrder(dev_keys(d), 1..Len(d)))

status_rows(df, status) ==
    LET Is(r) == r.Status = status
    IN  SelectSeq(df, Is)

\* _pick(df, status): the rows of a status, farthest from 100 % first
pick(df, status) == sort_dev(status_rows(df, status))

\* df_def.head(top) with top = min(5, len(df_def))
head_top(d) == SubSeq(d, 1, IF Len(d) < 5 THEN Len(d) ELSE 5)

narrate_sorted(df) ==
    [ empty |-> FALSE, table |-> df,
      Defisit |-> head_top(pick(df, "Defisit")),
      Surplus |-> head_top(pick(df, "Surplus")),
      Memadai |-> head_top(pick(df, "Memadai")) ]

\* narrate_gap(df_gap, kelompok_label): the classified rows, and the rows each bucket
\* line of the text mentions
narrate_gap(df_gap) ==
    IF Len(df_gap) = 0
    THEN [empty |-> TRUE, table |-> <<>>, Defisit |-> <<>>, Surplus |-> <<>>,
          Memadai |-> <<>>]
    ELSE narrate_sorted(sort_preferred(with_status(df_gap)))

-----------------------------------------------------------------------------
(* One run of the script *)

Methods == {"segar", "direbus", "tumis", "digoreng", "panggang"}
Units == {"g", "kg"}

Entry(m, b, w, u, mt) ==
    [NamaMenu |-> m, Bahan |-> b, BeratInput |-> w, Unit |-> u, Metode |-> mt]

\* the group the gap analysis uses: the bar chart's selectbox, left at index=1
target_group == AKG_GROUPS[2].Kelompok

\* How a run ended, and the warnings of its correction loop.  A run that ends "done"
\* has displayed every table below; the tables are functions of the session state the
\* run leaves (DfPerBahan, DfPerMenu, Asupan, DfAkgPct, DfGap, Narasi).
RunView(status, warnings) == [status |-> status, warnings |-> warnings]

\* sel_idx: the row the "sel_row_edit" selectbox shows; a value that is no longer an
\* option falls back to the first option
sel_idx(rws, sel) == IF sel \in 1..Len(rws) THEN sel ELSE 1

\* The edit widgets of the selected row: list.index(x) raises ValueError when x is
\* not in the list.
EditWidgetsOk(mns, rws, df, sel) ==
    LET row_cur == rws[sel_idx(rws, sel)]
    IN  /\ row_cur.NamaMenu \in SeqToSet(mns)
        /\ row_cur.Bahan \in ingredients_list(df)
        /\ row_cur.Unit \in Units
        /\ row_cur.Metode \in Methods

\* From "4) Hitung Komposisi" to the end of the script:
\* if df_per_bahan.empty: st.warning(...); st.stop()
Calculation(rws, df) ==
    IF Len(found_rows(df, rws)) = 0 THEN RunView("stop_no_result", calc_warnings(df, rws))
    ELSE RunView("done", calc_warnings(df, rws))

\* The script from "if not st.session_state.menus" on, in a run whose button handler
\* (if any) has already changed the session state.
RunScript(mns, rws, df, sel) ==
    IF mns = <<>> THEN RunView("stop_no_menu", <<>>)
    ELSE IF rws = <<>> THEN RunView("stop_no_rows", <<>>)
    ELSE IF ~EditWidgetsOk(mns, rws, df, sel) THEN RunView("exception", <<>>)
    ELSE Calculation(rws, df)

\* the row selectbox after a run: it keeps its state only while it is rendered
sel_after(mns, rws, sel) ==
    IF mns = <<>> \/ rws = <<>> THEN 0 ELSE sel_idx(rws, sel)

-----------------------------------------------------------------------------
(* The session: user inputs of the model *)

NameInputs == {"", " ", "a", " a", "b"}
SessionWeights == {100}
SessionUnits == {"g"}
SessionMethods == {"tumis"}

NoOp == [kind |-> "none", idx |-> 0, e |-> <<>>]
Op(kind, idx, e) == [kind |-> kind, idx |-> idx, e |-> e]

\* what every run of the session leaves alone
Widgets == UNCHANGED <<yield_df, ret_df, mode_akg, selected, manual, q>>

\* the run's record: the handler that fired, and the script's output
Ran(op, mns, rws, df, sel) ==
    /\ last_op' = op
    /\ twice' = (op = last_op)
    /\ sel_row' = sel_after(mns, rws, sel)
    /\ view' = RunScript(mns, rws, df, sel)

\* "Reset semua menu & bahan"
Reset ==
    /\ menus' = <<>>
    /\ rows' = <<>>
    /\ UNCHANGED tkpi_df
    /\ Widgets
    /\ Ran(Op("reset", 0, <<>>), <<>>, <<>>, tkpi_df, sel_row)

\* the menu list after "Tambah Menu"
AddMenuList(mns, new_menu) ==
    IF StripStr(new_menu) # ""
    THEN IF StripStr(new_menu) \notin SeqToSet(mns) THEN Append(mns, StripStr(new_menu))
         ELSE mns
    ELSE mns

AddMenu(new_menu) ==
    LET mns == AddMenuList(menus, new_menu)
    IN  /\ Len(mns) <= MaxMenus
        /\ menus' = mns
        /\ UNCHANGED <<rows, tkpi_df>>
        /\ Widgets
        /\ Ran(Op("add_menu", 0, <<>>), mns, rows, tkpi_df, sel_row)

\* the menu list and the entries after "Simpan Rename" of menu old
RenameMenuList(mns, old, new_name) ==
    LET new == StripStr(new_name)
    IN  IF new # "" /\ new # old
        THEN SeqOf([j \in 1..Len(mns) |-> IF mns[j] = old THEN new ELSE mns[j]], Len(mns))
        ELSE mns

\* A slip that renames the menu and leaves its entries under the old name.
RenameRows_Skip(rws, old, new_name) == rws

RenameRows(rws, old, new_name) ==
    LET new == StripStr(new_name)
    IN  IF new # "" /\ new # old
        THEN SeqOf([j \in 1..Len(rws) |->
                      IF rws[j].NamaMenu = old
                      THEN [rws[j] EXCEPT !.NamaMenu = new] ELSE rws[j]], Len(rws))
        ELSE rws

RenameMenu(i, new_name) ==
    /\ i \in 1..Len(menus)
    /\ LET mns == RenameMenuList(menus, menus[i], new_name)
           rws == RenameRows(rows, menus[i], new_name)
       IN  /\ menus' = mns
           /\ rows' = rws
           /\ Ran(Op("rename_menu", 0, <<>>), mns, rws, tkpi_df, sel_row)
    /\ UNCHANGED tkpi_df
    /\ Widgets

\* the menu list and the entries after "Hapus Menu" of menu to_del
DeleteMenuList(mns, to_del) ==
    LET KeepM(m) == m # to_del
    IN  SelectSeq(mns, KeepM)

DeleteMenuRows(rws, to_del) ==
    LET KeepR(r) == r.NamaMenu # to_del
    IN  SelectSeq(rws, KeepR)

DeleteMenu(i) ==
    /\ i \in 1..Len(menus)
    /\ LET mns == DeleteMenuList(menus, menus[i])
           rws == DeleteMenuRows(rows, menus[i])
       IN  /\ menus' = mns
           /\ rows' = rws
           /\ Ran(Op("delete_menu", 0, <<>>), mns, rws, tkpi_df, sel_row)
    /\ UNCHANGED tkpi_df
    /\ Widgets

\* A slip that drops an entry equal to one already in the list.
AddRows_Dedup(rws, e) == IF e \in SeqToSet(rws) THEN rws ELSE Append(rws, e)

\* st.session_state.rows.append({...})
AddRows(rws, e) == Append(rws, e)

\* "Tambah Bahan ke Menu"
AddEntry(e) ==
    /\ menus # <<>>
    /\ e.NamaMenu \in SeqToSet(menus)
    /\ e.Bahan \in ingredients_list(tkpi_df)
    /\ Len(rows) < MaxRows
    /\ LET rws == AddRows(rows, e)
       IN  /\ rows' = rws
           /\ Ran(Op("add", 0, e), menus, rws, tkpi_df, sel_row)
    /\ UNCHANGED <<menus, tkpi_df>>
    /\ Widgets

\* the user picks another row in the "sel_row_edit" selectbox
SelectRow(i) ==
    /\ menus # <<>>
    /\ i \in 1..Len(rows)
    /\ UNCHANGED <<menus, rows, tkpi_df>>
    /\ Widgets
    /\ Ran(Op("select_row", 0, <<>>), menus, rows, tkpi_df, i)

\* the edit and delete buttons are reached only when the widgets above them rendered
EditButtonsReached ==
    /\ menus # <<>>
    /\ rows # <<>>
    /\ EditWidgetsOk(menus, rows, tkpi_df, sel_row)

\* A slip that inserts the edited entry instead of replacing the row.
EditRows_Insert(rws, i, e) ==
    SubSeq(rws, 1, i - 1) \o <<e>> \o SubSeq(rws, i, Len(rws))

\* st.session_state.rows[sel_idx] = {...}
EditRows(rws, i, e) == [rws EXCEPT ![i] = e]

\* del st.session_state.rows[sel_idx]
DeleteRows(rws, i) == SubSeq(rws, 1, i - 1) \o SubSeq(rws, i + 1, Len(rws))

\* a run whose handler is one of the two buttons below the edit widgets: the script
\* then continues with the calculation
RanBelowEdit(op, rws) ==
    /\ last_op' = op
    /\ twice' = (op = last_op)
    /\ sel_row' = sel_idx(rows, sel_row)
    /\ view' = Calculation(rws, tkpi_df)

\* "Simpan Perubahan"
EditEntry(e) ==
    /\ EditButtonsReached
    /\ e.NamaMenu \in SeqToSet(menus)
    /\ e.Bahan \in ingredients_list(tkpi_df)
    /\ LET rws == EditRows(rows, sel_idx(rows, sel_row), e)
       IN  /\ rows' = rws
           /\ RanBelowEdit(Op("edit", sel_idx(rows, sel_row), e), rws)
    /\ UNCHANGED <<menus, tkpi_df>>
    /\ Widgets

\* "Hapus Baris"
DeleteEntry ==
    /\ EditButtonsReached
    /\ LET rws == DeleteRows(rows, sel_idx(rows, sel_row))
       IN  /\ rows' = rws
           /\ RanBelowEdit(Op("delete", sel_idx(rows, sel_row), <<>>), rws)
    /\ UNCHANGED <<menus, tkpi_df>>
    /\ Widgets

\* the sidebar: another TKPI source is chosen or uploaded, and the script runs again
LoadTkpi(df) ==
    /\ df # tkpi_df
    /\ tkpi_df' = df
    /\ UNCHANGED <<menus, rows>>
    /\ Widgets
    /\ Ran(Op("load_tkpi", 0, <<>>), menus, rows, df, sel_row)

SessionEntries ==
    {Entry(m, b, w, u, mt) : m \in {"a", "b"}, b \in {"ayam", "bayam"},
                             w \in SessionWeights, u \in SessionUnits, mt \in SessionMethods}

manual_default == asupan_default

\* The tables of the last run (of a run that ended "done")
DfPerBahan == calc_rows(tkpi_df, yield_df, ret_df, rows)
DfPerMenu == df_per_menu(DfPerBahan)
Asupan == asupan_of(mode_akg, DfPerMenu, selected, manual)
DfAkgPct == compute_akg_all(Asupan, AKG_GROUPS)
DfGap ==
    compute_gap_series(Asupan, AKG_GROUPS[CHOOSE i \in 1..Len(AKG_GROUPS) :
                                           AKG_GROUPS[i].Kelompok = target_group])
Narasi == narrate_gap(DfGap)

Init ==
    /\ menus = <<>>
    /\ rows = <<>>
    /\ tkpi_df = TkpiDefault
    /\ yield_df = default_yield_table
    /\ ret_df = default_retention_table
    /\ sel_row = 0
    /\ mode_akg = "Dari Per Menu"
    /\ selected = {}
    /\ manual = manual_default
    /\ view = RunView("stop_no_menu", <<>>)
    /\ last_op = NoOp
    /\ twice = FALSE
    /\ q = [fn |-> "none"]

Next ==
    \/ Reset
    \/ \E new_menu \in NameInputs : AddMenu(new_menu)
    \/ \E i \in 1..MaxMenus, new_name \in NameInputs : RenameMenu(i, new_name)
    \/ \E i \in 1..MaxMenus : DeleteMenu(i)
    \/ \E e \in SessionEntries : AddEntry(e)
    \/ \E i \in 1..MaxRows : SelectRow(i)
    \/ \E e \in SessionEntries : EditEntry(e)
    \/ DeleteEntry
    \/ \E df \in {TkpiDefault, TkpiUpload} : LoadTkpi(df)

Spec == Init /\ [][Next]_vars

-----------------------------------------------------------------------------
(* The calculation and the intake widgets, over the entry lists a session   *)
(* can hold                                                                 *)

CalcPortions == {<<200, "g", "direbus">>, <<100, "g", "segar">>}

CalcEntries ==
    {Entry(m, b, p[1], p[2], p[3]) : m \in {"a", "b"}, b \in {"ayam", "bayam"},
                                      p \in CalcPortions}
    \cup {Entry("a", "ayam", 1, "kg", "tumis")}

\* the entry lists of at most n entries
RECURSIVE RowLists(_)
RowLists(n) ==
    IF n = 0 THEN {<<>>}
    ELSE RowLists(n - 1)
         \cup {Append(rws, e) : rws \in {l \in RowLists(n - 1) : Len(l) = n - 1},
                                e \in CalcEntries}

ManualInputs == {Num(50)}

InitCalc ==
    /\ menus = <<"a", "b">>
    /\ rows \in RowLists(MaxRows)
    /\ tkpi_df \in TkpiTables
    /\ yield_df = default_yield_table
    /\ ret_df = default_retention_table
    /\ sel_row = sel_after(menus, rows, 0)
    /\ mode_akg = "Dari Per Menu"
    /\ selected = {}
    /\ manual = manual_default
    /\ view = RunScript(menus, rows, tkpi_df, sel_row)
    /\ last_op = NoOp
    /\ twice = FALSE
    /\ q = [fn |-> "none"]

\* a run after a change of an intake widget: the session state is as it was
CalcRerun == UNCHANGED <<menus, rows, tkpi_df, yield_df, ret_df, sel_row, view, last_op,
                         twice, q>>

\* the radio "Sumber asupan harian"; the widgets of the branch that is no longer
\* rendered lose their state
SetMode(m) ==
    /\ view.status = "done"
    /\ m # mode_akg
    /\ mode_akg' = m
    /\ selected' = {}
    /\ manual' = manual_default
    /\ CalcRerun

\* the multiselect "Pilih menu": its options are the menus of df_per_menu
SelectMenus(S) ==
    /\ view.status = "done"
    /\ mode_akg = "Dari Per Menu"
    /\ S # selected
    /\ S \subseteq SeqToSet(group_names(DfPerBahan))
    /\ selected' = S
    /\ UNCHANGED <<mode_akg, manual>>
    /\ CalcRerun

\* one of the number inputs of "Input manual"
SetManual(k, v) ==
    /\ view.status = "done"
    /\ mode_akg = "Input manual"
    /\ manual[k] # v
    /\ manual' = [manual EXCEPT ![k] = v]
    /\ UNCHANGED <<mode_akg, selected>>
    /\ CalcRerun

NextCalc ==
    \/ \E m \in {"Dari Per Menu", "Input manual"} : SetMode(m)
    \/ \E S \in SUBSET {"a", "b"} : SelectMenus(S)
    \/ \E v \in ManualInputs : SetManual("Serat", v)

SpecCalc == InitCalc /\ [][NextCalc]_vars

-----------------------------------------------------------------------------
(* Properties of the calculation *)

\* the sum of column c over the rows J of a frame, none of them missing
RECURSIVE IdxSum(_, _, _)
IdxSum(df, c, J) ==
    IF J = {} THEN Num(0)
    ELSE LET j == CHOOSE x \in J : TRUE
         IN  RAdd(df[j].nut[c], IdxSum(df, c, J \ {j}))

\* the rows of menus S that hold a number in column c
DefinedIn(df, c, S) ==
    {j \in 1..Len(df) : df[j].NamaMenu \in S /\ ~IsNaN(df[j].nut[c])}

MenusOf(df) == {df[i].NamaMenu : i \in 1..Len(df)}

Reverse(s) == [i \in 1..Len(s) |-> s[Len(s) + 1 - i]]

ExampleEntry == Entry("a", "ayam", 200, "g", "direbus")

CorrectedAsStated(o, e, tk) ==
    /\ o.BeratInput_g = Num(IF e.Unit = "kg" THEN e.BeratInput * 1000 ELSE e.BeratInput)
    /\ o.BDD = (IF "BDD" \in DOMAIN tk.cells /\ tk.cells["BDD"].k = "num"
                THEN tk.cells["BDD"].v ELSE Num(100))
    /\ o.BeratEdible = RMul(o.BeratInput_g, RDiv(o.BDD, Num(100)))
    /\ o.Yield = get_yield(yield_df, e.Metode)
    /\ o.BeratAkhir = RMul(o.BeratEdible, o.Yield)
    /\ \A key \in DOMAIN o.nut :
          key \in DOMAIN tk.cells /\ tk.cells[key].k = "num"
          => o.nut[key] = RMul(RMul(RDiv(tk.cells[key].v, Num(100)), o.BeratAkhir),
                               get_retention(ret_df, e.Metode, UpperStr(key)))
    /\ (o.BDD = Num(100) /\ o.Yield = Num(1)) => o.BeratAkhir = o.BeratInput_g
    /\ (e = ExampleEntry /\ tkpi_df = TkpiDefault)
       => /\ o.BeratEdible = Num(180)
          /\ o.BeratAkhir = Num(180)
          /\ o.nut["PROTEIN"] = Rat(3528, 100)

AllCorrectedAsStated(per_bahan, found) ==
    /\ Len(per_bahan) = Len(found)
    /\ \A i \in 1..Len(found) :
          CorrectedAsStated(per_bahan[i], found[i],
                            tkpi_df.recs[TkpiLoc(tkpi_df, found[i].Bahan)])

\* C1: every entry whose ingredient is in the reference table gets a corrected row with
\* edible weight = input grams * (edible % / 100), final weight = edible weight * yield
\* of the method, and every nutrient with a numeric per-100 g value = (per100 / 100) *
\* final weight * retention(method, nutrient); with edible 100 % and yield 1 the final
\* weight is the input weight; protein 20, edible 90 %, 200 g, "direbus" gives edible
\* 180, final 180, protein 35.28.
C1_CorrectionFormula ==
    view.status = "done"
    => AllCorrectedAsStated(DfPerBahan, found_rows(tkpi_df, rows))

ExampleCorrected(per_bahan) ==
    \E i \in 1..Len(per_bahan) :
        /\ per_bahan[i].Bahan = "ayam" /\ per_bahan[i].Metode = "direbus"
        /\ per_bahan[i].nut["PROTEIN"] = Rat(3528, 100)

C1_Witness ==
    /\ view.status = "done"
    /\ tkpi_df = TkpiDefault
    /\ \E i \in 1..Len(rows) : rows[i] = ExampleEntry
    /\ \E i \in 1..Len(rows) : rows[i].Metode = "tumis"
    /\ ExampleCorrected(DfPerBahan)

PerMenuAsStated(per_bahan, per_menu) ==
    /\ MenusOf(per_menu) = MenusOf(per_bahan)
    /\ \A i, j \in 1..Len(per_menu) : per_menu[i].NamaMenu = per_menu[j].NamaMenu => i = j
    /\ \A i \in 1..Len(per_menu) :
          /\ DOMAIN per_menu[i].nut = DOMAIN per_bahan[1].nut
          /\ \A c \in DOMAIN per_menu[i].nut :
                /\ per_menu[i].nut[c]
                   = IdxSum(per_bahan, c, DefinedIn(per_bahan, c, {per_menu[i].NamaMenu}))
                /\ DefinedIn(per_bahan, c, {per_menu[i].NamaMenu}) = {}
                   => per_menu[i].nut[c] = Num(0)

\* C6: the per-menu totals hold exactly one row per distinct menu name of the corrected
\* rows; every nutrient total is the sum of the defined corrected values of the menu's
\* rows, undefined values being left out; a nutrient no row of the menu defines totals 0.
C6_PerMenuTotals ==
    view.status = "done" => PerMenuAsStated(DfPerBahan, DfPerMenu)

MixedTotal(per_bahan, per_menu) ==
    \E i \in 1..Len(per_menu) : \E c \in DOMAIN per_menu[i].nut :
        /\ \E j \in 1..Len(per_bahan) :
              per_bahan[j].NamaMenu = per_menu[i].NamaMenu /\ IsNaN(per_bahan[j].nut[c])
        /\ DefinedIn(per_bahan, c, {per_menu[i].NamaMenu}) # {}
        /\ per_menu[i].nut[c] # Num(0)

C6_Witness ==
    /\ view.status = "done"
    /\ MixedTotal(DfPerBahan, DfPerMenu)

\* the per-menu rows of the menus S
RowsOf(per_menu, S) ==
    LET InS(r) == r.NamaMenu \in S
    IN  SelectSeq(per_menu, InS)

AggregationAsStated(per_bahan, per_menu, per_menu_rev) ==
    /\ \A S \in SUBSET MenusOf(per_menu) : \A c \in nutr_cols_present(per_bahan) :
          /\ IdxSum(per_menu, c, DefinedIn(per_menu, c, S))
             = IdxSum(per_bahan, c, DefinedIn(per_bahan, c, S))
          /\ S # {} => column_sum(sel_df(per_menu, S), c)
                       = IdxSum(per_bahan, c, DefinedIn(per_bahan, c, S))
    /\ per_menu_rev = per_menu
    /\ \A i \in 1..Len(per_menu) :
          ( /\ Len(group_rows(per_bahan, per_menu[i].NamaMenu)) = 2
            /\ "ENERGI" \in nutr_cols_present(per_bahan)
            /\ group_rows(per_bahan, per_menu[i].NamaMenu)[1].nut["ENERGI"] = Num(150)
            /\ group_rows(per_bahan, per_menu[i].NamaMenu)[2].nut["ENERGI"] = Num(220) )
          => per_menu[i].nut["ENERGI"] = Num(370)

\* C7: for every subset S of the menus and every nutrient, the sum of the per-menu
\* totals of S equals the sum of the nutrient over the corrected rows whose menu is in
\* S, whatever the order of the entries and however they are spread over the menus; two
\* rows of one menu with energy 150 and 220 total 370.
C7_Aggregation ==
    view.status = "done"
    => AggregationAsStated(DfPerBahan, DfPerMenu,
                           df_per_menu(calc_rows(tkpi_df, yield_df, ret_df, Reverse(rows))))

TwoMenusSummed(per_bahan, per_menu, asupan) ==
    /\ Len(per_menu) = 2
    /\ Len(per_bahan) = 2
    /\ asupan["Energi"] = RAdd(per_bahan[1].nut["ENERGI"], per_bahan[2].nut["ENERGI"])
    /\ asupan["Energi"] # per_menu[1].nut["ENERGI"]

C7_Witness ==
    /\ view.status = "done"
    /\ tkpi_df = TkpiPlain
    /\ mode_akg = "Dari Per Menu"
    /\ selected = {"a", "b"}
    /\ TwoMenusSummed(DfPerBahan, DfPerMenu, Asupan)

EmptySelectionAsStated(per_menu, asupan) ==
    /\ asupan_from_menus(per_menu, {}) = asupan_from_menus(per_menu, MenusOf(per_menu))
    /\ selected = {} => asupan = asupan_from_menus(per_menu, MenusOf(per_menu))
    /\ DOMAIN asupan_from_menus(per_menu, {}) = AkgKeys
    /\ \E k \in AkgKeys : asupan_from_menus(per_menu, {})[k] # Num(0)
    /\ \A c \in nutr_cols_present(per_menu) :
          column_sum(sel_df(per_menu, {}), c)
          = IdxSum(per_menu, c, DefinedIn(per_menu, c, MenusOf(per_menu)))

\* C8: in per-menu intake mode an empty menu selection gives the intake of the selection
\* of all menus, the sum over every per-menu row, and never an empty or all-zero intake.
C8_EmptySelectionIsAll ==
    (view.status = "done" /\ mode_akg = "Dari Per Menu")
    => EmptySelectionAsStated(DfPerMenu, Asupan)

EmptySelectionSummed(per_menu, asupan) ==
    /\ Len(per_menu) = 2
    /\ asupan["Energi"] = RAdd(per_menu[1].nut["ENERGI"], per_menu[2].nut["ENERGI"])
    /\ per_menu[2].nut["ENERGI"] # Num(0)

C8_Witness ==
    /\ view.status = "done"
    /\ mode_akg = "Dari Per Menu"
    /\ selected = {}
    /\ "ENERGI" \in tkpi_df.columns
    /\ EmptySelectionSummed(DfPerMenu, Asupan)

\* the AKG keys one of whose aliases names a column of the per-menu totals
ResolvedKeys(per_menu) ==
    {k \in AkgKeys :
        \E i \in 1..Len(aliases(k)) :
            \E c \in nutr_cols_present(per_menu) : LowerStr(c) = LowerStr(aliases(k)[i])}

ZeroFilledAsStated(per_menu, asupan) ==
    ResolvedKeys(per_menu) # {}
    => \A k \in AkgKeys \ ResolvedKeys(per_menu) : asupan[k] = Num(0)

\* C2: when the intake comes from the per-menu totals and at least one of the eight
\* reference keys resolves to a column, every reference key without a matching column
\* is 0 in the intake vector, not the manual-entry default; a manually entered intake
\* is not zero-filled.
C2_ZeroFill ==
    /\ (view.status = "done" /\ mode_akg = "Dari Per Menu")
       => ZeroFilledAsStated(DfPerMenu, Asupan)
    /\ (view.status = "done" /\ mode_akg = "Input manual")
       => \A k \in AkgKeys : Asupan[k] = manual[k]

\* what the code does with a key that has no column: the default of line 586 stays
DefaultKept(per_menu, asupan) ==
    \A k \in AkgKeys \ ResolvedKeys(per_menu) : asupan[k] = asupan_default[k]

C2_DefaultKept ==
    (view.status = "done" /\ mode_akg = "Dari Per Menu") => DefaultKept(DfPerMenu, Asupan)

\* C3: add-entry, edit-entry and delete-entry are idempotent: the same operation with
\* the same arguments, applied twice in succession, leaves the entry list as it was
\* after the first application.
C3_AllIdempotent ==
    [][(last_op'.kind \in {"add", "edit", "delete"} /\ last_op' = last_op)
       => rows' = rows]_vars

\* C3 (amended): edit-entry is idempotent; add-entry appends its entry on every
\* application, and delete-entry removes one more row on every application.
C3_EditIdempotent ==
    [][ /\ (last_op'.kind = "edit" /\ last_op' = last_op) => rows' = rows
        /\ last_op'.kind = "edit"
           => (Len(rows') = Len(rows) /\ rows'[last_op'.idx] = last_op'.e)
        /\ last_op'.kind = "add" => rows' = Append(rows, last_op'.e)
        /\ last_op'.kind = "delete" => Len(rows') = Len(rows) - 1 ]_vars

C3_Witness ==
    /\ twice
    /\ last_op.kind = "edit"
    /\ Len(rows) = 2
    /\ rows[1] # rows[2]

\* C4: an entry whose ingredient is not in the loaded reference table is skipped with a
\* warning and yields no corrected row, the run does not abort, and every entry whose
\* ingredient is found yields its corrected row in the same pass.
C4_SkipNotAbort ==
    (menus # <<>> /\ rows # <<>>)
    => /\ view.status \in {"done", "stop_no_result"}
       /\ view.warnings = bahan_of(missing_rows(tkpi_df, rows))
       /\ Len(DfPerBahan) = Len(found_rows(tkpi_df, rows))

-----------------------------------------------------------------------------
(* The factor lookups as functions of their arguments *)

LookupMethods == {"segar", "direbus", "Direbus", "tumis"}
LookupKeys == {"PROTEIN", "Protein", "VIT_C"}

TabRows ==
    {RRow(m, n, r) : m \in {"direbus", "Direbus", "segar"},
                     n \in {"PROTEIN", "Protein", "ALL", "all"},
                     r \in {Rat(1, 2), Rat(9, 10)}}

\* the retention tables of at most n rows
RECURSIVE RetTables(_)
RetTables(n) ==
    IF n = 0 THEN {<<>>}
    ELSE RetTables(n - 1)
         \cup {Append(t, r) : t \in {l \in RetTables(n - 1) : Len(l) = n - 1}, r \in TabRows}

YieldTables ==
    {<<>>, default_yield_table, <<YRow("Tumis", Rat(1, 2)), YRow("tumis", Rat(3, 4))>>,
     <<YRow("segar", Rat(1, 2)), YRow("Direbus", Rat(3, 4))>>,
     <<YRow("DIREBUS", Rat(1, 2))>>}

InitLookup ==
    /\ menus = <<>>
    /\ rows = <<>>
    /\ tkpi_df = TkpiDefault
    /\ \/ ret_df \in RetTables(MaxTabLen) /\ yield_df = default_yield_table
       \/ ret_df = default_retention_table /\ yield_df \in YieldTables
    /\ sel_row = 0
    /\ mode_akg = "Dari Per Menu"
    /\ selected = {}
    /\ manual = manual_default
    /\ view = RunView("stop_no_menu", <<>>)
    /\ last_op = NoOp
    /\ twice = FALSE
    /\ q = [fn |-> "none"]

LookupFrame == UNCHANGED <<menus, rows, tkpi_df, yield_df, ret_df, sel_row, mode_akg,
                           selected, manual, view, last_op, twice>>

\* y = get_yield(yield_df, method)
CallGetYield(method) ==
    /\ q' = [fn |-> "get_yield", method |-> method, result |-> get_yield(yield_df, method)]
    /\ LookupFrame

\* rf = get_retention(ret_df, method, norm(key))
CallRetention(method, key) ==
    /\ key \in LookupKeys \/ ret_df = default_retention_table
    /\ q' = [fn |-> "get_retention", method |-> method, key |-> key,
             result |-> retention(ret_df, method, key)]
    /\ LookupFrame

NextLookup ==
    \/ \E method \in LookupMethods : CallGetYield(method)
    \/ \E method \in LookupMethods, key \in LookupKeys \cup SeqToSet(candidate_keys) :
          CallRetention(method, key)

SpecLookup == InitLookup /\ [][NextLookup]_vars

\* strings that differ in the case of their letters only
CaseClasses ==
    { {"segar", "Segar", "SEGAR"}, {"direbus", "Direbus", "DIREBUS"},
      {"tumis", "Tumis", "TUMIS"}, {"protein", "Protein", "PROTEIN"},
      {"all", "All", "ALL"}, {"Folat", "FOLAT"}, {"Vit A RE", "VIT A RE"},
      {"Vit RAE", "VIT RAE"}, {"B-KAR (mcg)", "B-KAR (MCG)"},
      {"KARTOTAL (mcg)", "KARTOTAL (MCG)"}, {"kh", "KH"},
      {"karbohidrat", "Karbohidrat"}, {"lemak", "LEMAK"},
      {"lemak_total", "Lemak_total"}, {"energi", "Energi", "ENERGI"}, {"air", "AIR"} }

CaseEq(a, b) == a = b \/ \E C \in CaseClasses : a \in C /\ b \in C

MatchingRows(rdf, method, nutrient) ==
    {i \in 1..Len(rdf) : CaseEq(rdf[i].Metode, method) /\ CaseEq(rdf[i].Nutrien, nutrient)}

FirstOf(J) == CHOOSE i \in J : \A j \in J : i <= j

LookupAsStated(rdf, method, key, result) ==
    /\ result = (IF MatchingRows(rdf, method, key) # {}
                 THEN rdf[FirstOf(MatchingRows(rdf, method, key))].Retensi
                 ELSE IF MatchingRows(rdf, method, "ALL") # {}
                 THEN rdf[FirstOf(MatchingRows(rdf, method, "ALL"))].Retensi
                 ELSE Num(1))
    /\ (rdf = default_retention_table /\ method = "segar")
       => /\ MatchingRows(rdf, method, key) = {}
          /\ MatchingRows(rdf, method, "ALL") # {}
          /\ result = Num(1)

\* C5: the retention lookup returns the factor of the first table row that matches the
\* method and the nutrient without regard to case; without such a row, the factor of the
\* first row of the method with nutrient "ALL"; without that too, or with an empty
\* table, 1.0.  With the default table every nutrient of method "segar" resolves to 1.0
\* through the "ALL" row.
C5_RetentionLookup ==
    q.fn = "get_retention" => LookupAsStated(ret_df, q.method, q.key, q.result)

C5_Witness ==
    /\ q.fn = "get_retention"
    /\ MatchingRows(ret_df, q.method, q.key) = {}
    /\ MatchingRows(ret_df, q.method, "ALL") = {2}
    /\ q.method = "Direbus"
    /\ q.result = Rat(1, 2)

-----------------------------------------------------------------------------
(* Adequacy, gap rows and the narrative as functions of an intake vector *)

EnergiInputs == {NaN, Num(1799), Num(1800), Num(2400), Num(2401)}
ProteinInputs == {NaN, Num(0), Num(44), Num(45), Num(60), Num(61)}
SeratInputs == {NaN, Num(28)}

IntakeOf(e, p, sr) ==
    [asupan_default EXCEPT !["Energi"] = e, !["Protein"] = p, !["Serat"] = sr]

\* the same intake without its "Air" entry
WithoutAir(intake) == [k \in AkgKeys \ {"Air"} |-> intake[k]]

\* the same intake with two entries that are no AKG nutrient
WithExtras(intake) == intake @@ ("Kelompok" :> Num(1)) @@ ("VIT_C" :> Num(40))

Intakes ==
    {IntakeOf(e, p, sr) : e \in EnergiInputs, p \in ProteinInputs, sr \in SeratInputs}
    \cup {WithoutAir(IntakeOf(e, p, Num(28))) : e \in EnergiInputs, p \in ProteinInputs}
    \cup {WithExtras(IntakeOf(e, Num(45), Num(28))) : e \in EnergiInputs}

\* a reference row whose energy target is zero
ZeroTargetRow ==
    AkgRow("Tanpa target", "NA", Num(0), Num(50), Num(65), Rat(12, 10), Num(12),
           Num(300), Num(28), Num(1850))

RefTables == {AKG_GROUPS, <<ZeroTargetRow, AKG_GROUPS[2]>>}

\* the intake vector of the calls is drawn once
InitAkg ==
    /\ menus = <<>>
    /\ rows = <<>>
    /\ tkpi_df = TkpiDefault
    /\ yield_df = default_yield_table
    /\ ret_df = default_retention_table
    /\ sel_row = 0
    /\ mode_akg = "Input manual"
    /\ selected = {}
    /\ manual = manual_default
    /\ view = RunView("stop_no_menu", <<>>)
    /\ last_op = NoOp
    /\ twice = FALSE
    /\ q \in {[fn |-> "none", intake |-> intake] : intake \in Intakes \cup {<<>>}}

AkgFrame == UNCHANGED <<menus, rows, tkpi_df, yield_df, ret_df, sel_row, mode_akg,
                        selected, manual, view, last_op, twice>>

\* pct = adequacy_pct(intake, r)
CallAdequacy(akg_row) ==
    /\ q.intake # <<>>
    /\ q' = [fn |-> "adequacy_pct", intake |-> q.intake, akg_row |-> akg_row,
             result |-> adequacy_pct(q.intake, akg_row)]
    /\ AkgFrame

\* df_akg_pct = compute_akg_all(pd.Series(asupan), ref_akg)
CallAkgAll(ref) ==
    /\ q.intake # <<>>
    /\ q' = [fn |-> "compute_akg_all", intake |-> q.intake, ref |-> ref,
             result |-> compute_akg_all(q.intake, ref)]
    /\ AkgFrame

\* df_gap = compute_gap_series(asupan, akg_row); narrate_gap(df_gap, target_group)
NarrateOf(akg_row, df_gap) ==
    /\ q' = [fn |-> "narrate_gap", intake |-> q.intake, akg_row |-> akg_row,
             df_gap |-> df_gap, result |-> narrate_gap(df_gap)]
    /\ AkgFrame

CallNarrate(akg_row) == NarrateOf(akg_row, compute_gap_series(q.intake, akg_row))

NextAkg ==
    \/ \E ref \in RefTables : \E i \in 1..Len(ref) : CallAdequacy(ref[i])
    \/ \E ref \in RefTables : CallAkgAll(ref)
    \/ \E ref \in RefTables : \E i \in 1..Len(ref) : CallNarrate(ref[i])

SpecAkg == InitAkg /\ [][NextAkg]_vars

\* intake / target * 100 of two numbers, the target not zero
Percent(val, tgt) == Rat(val[1] * tgt[2] * 100, val[2] * tgt[1])

PctAsStated(intake, akg_row, pct) ==
    \A c \in AkgKeys :
        /\ ~Raised(pct[c])
        /\ pct[c] = (IF akg_row[c] = Num(0) \/ c \notin DOMAIN intake THEN NaN
                     ELSE IF intake[c] = NaN THEN NaN
                     ELSE Percent(intake[c], akg_row[c]))

\* C9: for every reference group and each of the eight nutrient keys the adequacy
\* percentage is undefined when the group's target is zero or the intake value is
\* undefined or missing, and intake / target * 100 otherwise; computing it never raises.
C9_AdequacyPct ==
    /\ q.fn = "adequacy_pct" => PctAsStated(q.intake, q.akg_row, q.result)
    /\ q.fn = "compute_akg_all"
       => /\ Len(q.result) = Len(q.ref)
          /\ \A i \in 1..Len(q.ref) :
                /\ q.result[i].Kelompok = q.ref[i].Kelompok
                /\ PctAsStated(q.intake, q.ref[i], q.result[i].pct)

C9_Witness ==
    /\ q.fn = "adequacy_pct"
    /\ q.akg_row = ZeroTargetRow
    /\ "Air" \notin DOMAIN q.intake
    /\ q.intake["Energi"] = Num(1800)
    /\ IsNaN(q.result["Energi"])
    /\ IsNaN(q.result["Air"])
    /\ q.result["Protein"] = Num(90)

\* p < 90, 90 <= p <= 120, p > 120 for a percentage that is a number
ClassOf(p) ==
    IF IsNaN(p) THEN "NA"
    ELSE IF p[1] < 90 * p[2] THEN "Defisit"
    ELSE IF p[1] > 120 * p[2] THEN "Surplus"
    ELSE "Memadai"

Buckets(res) == <<res.Defisit, res.Surplus, res.Memadai>>

ClassifiedAsStated(df_gap, res) ==
    /\ Len(res.table) = Len(df_gap)
    /\ \A i \in 1..Len(res.table) :
          /\ res.table[i].Status = ClassOf(res.table[i].Pencapaian)
          /\ res.table[i].Pencapaian = Num(90) => res.table[i].Status = "Memadai"
          /\ res.table[i].Pencapaian = Num(120) => res.table[i].Status = "Memadai"
          /\ \E j \in 1..Len(df_gap) :
                /\ df_gap[j].Nutrien = res.table[i].Nutrien
                /\ df_gap[j].Pencapaian = res.table[i].Pencapaian
    /\ \A b \in 1..3 : \A i \in 1..Len(Buckets(res)[b]) :
          /\ Buckets(res)[b][i].Status = <<"Defisit", "Surplus", "Memadai">>[b]
          /\ ~IsNaN(Buckets(res)[b][i].Pencapaian)
          /\ Buckets(res)[b][i] \in SeqToSet(res.table)

\* C10: a gap row is Deficit iff its percentage is below 90, Adequate iff it is from 90
\* to 120 (90.0 and 120.0 included), Surplus iff it is above 120, and NotAvailable iff
\* the percentage is undefined; NotAvailable rows are in none of the narrative buckets.
C10_Classification ==
    q.fn = "narrate_gap" => ClassifiedAsStated(q.df_gap, q.result)

HasRow(table, nutrien, pct, status) ==
    \E i \in 1..Len(table) :
        /\ table[i].Nutrien = nutrien
        /\ table[i].Pencapaian = pct
        /\ table[i].Status = status

C10_Witness ==
    /\ q.fn = "narrate_gap"
    /\ HasRow(q.result.table, "Protein", Num(90), "Memadai")
    /\ HasRow(q.result.table, "Energi", Num(120), "Memadai")
    /\ HasRow(q.result.table, "Serat", NaN, "NA")
    /\ Len(q.result.Memadai) >= 2

\* val - tgt of two numbers
Difference(val, tgt) == Rat(val[1] * tgt[2] - tgt[1] * val[2], val[2] * tgt[2])

GapValuesFrom(intake, akg_row, df_gap) ==
    \A i \in 1..Len(df_gap) :
        /\ df_gap[i].Nutrien \in DOMAIN intake \cap DOMAIN akg_row
        /\ df_gap[i].Target = akg_row[df_gap[i].Nutrien]
        /\ df_gap[i].Asupan = intake[df_gap[i].Nutrien]

GapOf(df_gap, nutrien) ==
    (CHOOSE i \in 1..Len(df_gap) : df_gap[i].Nutrien = nutrien)

C12_GapKeys ==
    q.fn = "narrate_gap"
    => /\ {q.df_gap[i].Nutrien : i \in 1..Len(q.df_gap)}
          = (DOMAIN q.intake \cap DOMAIN q.akg_row) \ {"Kelompok"}
       /\ \A i, j \in 1..Len(q.df_gap) :
             q.df_gap[i].Nutrien = q.df_gap[j].Nutrien => i = j

C12_Witness ==
    /\ q.fn = "narrate_gap"
    /\ "VIT_C" \in DOMAIN q.intake
    /\ "Kelompok" \in DOMAIN q.intake
    /\ "JK" \in DOMAIN q.akg_row
    /\ Len(q.df_gap) = 8

\* |p - 100| of a percentage that is a number, as a fraction <<n, d>> with d > 0
Deviation(p) == <<Abs(p[1] - 100 * p[2]), p[2]>>
DevGe(x, y) == Deviation(x)[1] * Deviation(y)[2] >= Deviation(y)[1] * Deviation(x)[2]

Ranked(table, listed, status) ==
    /\ Len(listed) <= 5
    /\ Cardinality({i \in 1..Len(table) : table[i].Status = status}) >= 5
       => Len(listed) = 5
    /\ Cardinality({i \in 1..Len(table) : table[i].Status = status}) < 5
       => Len(listed) = Cardinality({i \in 1..Len(table) : table[i].Status = status})
    /\ \A i, j \in 1..Len(listed) :
          /\ i < j => DevGe(listed[i].Pencapaian, listed[j].Pencapaian)
          /\ listed[i].Nutrien = listed[j].Nutrien => i = j
    /\ \A i \in 1..Len(listed) :
          /\ listed[i].Status = status
          /\ listed[i] \in SeqToSet(table)
          /\ \A j \in 1..Len(table) :
                (table[j].Status = status /\ table[j] \notin SeqToSet(listed))
                => DevGe(listed[i].Pencapaian, table[j].Pencapaian)

\* C13: the items of each narrative bucket (Deficit, Surplus, Adequate) are in order of
\* descending absolute deviation of the percentage from 100; a bucket mentions at most 5
\* items, the 5 with the largest deviation; the gap table still holds every gap row.
C13_BucketsRanked ==
    q.fn = "narrate_gap"
    => /\ Ranked(q.result.table, q.result.Defisit, "Defisit")
       /\ Ranked(q.result.table, q.result.Surplus, "Surplus")
       /\ Ranked(q.result.table, q.result.Memadai, "Memadai")
       /\ Len(q.result.table) = Len(q.df_gap)
       /\ {q.result.table[i].Nutrien : i \in 1..Len(q.result.table)}
          = {q.df_gap[i].Nutrien : i \in 1..Len(q.df_gap)}

C13_Witness ==
    /\ q.fn = "narrate_gap"
    /\ Cardinality({i \in 1..Len(q.result.table) : q.result.table[i].Status = "Defisit"}) > 5
    /\ Len(q.result.Defisit) = 5
    /\ q.result.Defisit[1].Pencapaian # q.result.Defisit[5].Pencapaian
    /\ q.result.Defisit[1].Nutrien # q.result.table[1].Nutrien

\* the cell of a record in a column is a number
IsNumber(tk, col) == col \in DOMAIN tk.cells /\ tk.cells[col].k = "num"

DefaultsAsStated(o, tk) ==
    /\ ~IsNumber(tk, "BDD") => o.BDD = Num(100)
    /\ IsNumber(tk, "BDD") => o.BDD = tk.cells["BDD"].v
    /\ ~IsNaN(o.BeratAkhir)
    /\ \A key \in DOMAIN o.nut :
          /\ ~IsNumber(tk, key) => (IsNaN(o.nut[key]) /\ o.nut[key] # Num(0))
          /\ IsNumber(tk, key) => (~IsNaN(o.nut[key]) /\ ~Raised(o.nut[key]))

AllDefaultsAsStated(per_bahan, found) ==
    \A i \in 1..Len(found) :
        DefaultsAsStated(per_bahan[i], tkpi_df.recs[TkpiLoc(tkpi_df, found[i].Bahan)])

\* C14: a missing or non-numeric source field degrades to a default and the run goes
\* on: an absent or non-numeric edible percentage (BDD) is replaced by 100; an absent or
\* non-numeric per-100 g value leaves that nutrient undefined (not 0) in the corrected
\* row, and the other nutrients of the row are still computed.
C14_MissingFieldsDefault ==
    view.status = "done"
    => AllDefaultsAsStated(DfPerBahan, found_rows(tkpi_df, rows))

DegradedRow(per_bahan) ==
    \E i \in 1..Len(per_bahan) :
        /\ per_bahan[i].Bahan = "bayam"
        /\ per_bahan[i].BDD = Num(100)
        /\ IsNaN(per_bahan[i].nut["PROTEIN"])
        /\ ~IsNaN(per_bahan[i].nut["ENERGI"])
        /\ per_bahan[i].nut["ENERGI"] # Num(0)

C14_Witness ==
    /\ view.status = "done"
    /\ tkpi_df = TkpiDefault
    /\ DegradedRow(DfPerBahan)

YieldMatches(ydf, method) == {i \in 1..Len(ydf) : CaseEq(ydf[i].Metode, method)}

YieldAsStated(ydf, method, result) ==
    /\ result = (IF YieldMatches(ydf, method) # {}
                 THEN ydf[FirstOf(YieldMatches(ydf, method))].Yield
                 ELSE Num(1))
    /\ (ydf = <<>> \/ YieldMatches(ydf, method) = {}) => result = Num(1)

\* C15: the yield lookup returns the multiplier of the yield-table row whose method is
\* the entry's method without regard to case, and 1.0 for a method without such a row or
\* for an empty table; it never falls back to the first row of the table.
C15_YieldLookup ==
    q.fn = "get_yield" => YieldAsStated(yield_df, q.method, q.result)

C15_Witness ==
    /\ q.fn = "get_yield"
    /\ yield_df # <<>>
    /\ YieldMatches(yield_df, q.method) = {}
    /\ yield_df[1].Yield # Num(1)
    /\ q.result = Num(1)

-----------------------------------------------------------------------------
(* The alias lookup of the intake as a function of a per-menu frame *)

AliasColumns ==
    { <<"Nama Menu", "KH", "Karbohidrat">>, <<"Nama Menu", "Karbohidrat", "KH">>,
      <<"Nama Menu", "LEMAK", "Lemak_total">>, <<"Nama Menu", "ENERGI", "Energi">>,
      <<"Nama Menu", "ENERGI", "PROTEIN">>, <<"Nama Menu", "VIT_C", "AIR">> }

AliasValues == {NaN, Num(1), Num(2)}

\* one per-menu row with the two nutrient columns of cols
AliasRow(m, cols, x, y) == [NamaMenu |-> m, nut |-> (cols[2] :> x) @@ (cols[3] :> y)]

AliasFrames(cols) ==
    {<<AliasRow("a", cols, x, y)>> : x \in AliasValues, y \in AliasValues}
    \cup {<<AliasRow("a", cols, x, y), AliasRow("b", cols, u, v)>> :
            x \in AliasValues, y \in AliasValues, u \in AliasValues, v \in AliasValues}

InitAlias ==
    /\ menus = <<>>
    /\ rows = <<>>
    /\ tkpi_df = TkpiDefault
    /\ yield_df = default_yield_table
    /\ ret_df = default_retention_table
    /\ sel_row = 0
    /\ mode_akg = "Dari Per Menu"
    /\ selected = {}
    /\ manual = manual_default
    /\ view = RunView("stop_no_menu", <<>>)
    /\ last_op = NoOp
    /\ twice = FALSE
    /\ \E cols \in AliasColumns : \E frame \in AliasFrames(cols) :
          q = [fn |-> "none", cols |-> cols, frame |-> frame]

AliasFrame == UNCHANGED <<menus, rows, tkpi_df, yield_df, ret_df, sel_row, mode_akg,
                          selected, manual, view, last_op, twice>>

\* tot = sum_by_alias(sel_df, aliases[k])
CallSumByAlias(k) ==
    /\ q' = [fn |-> "sum_by_alias", cols |-> q.cols, frame |-> q.frame, key |-> k,
             result |-> sum_by_alias(q.frame, q.cols, aliases(k))]
    /\ AliasFrame

\* the two loops over AKG_COLS that fill asupan
CallFillAsupan ==
    /\ q' = [fn |-> "fill_asupan", cols |-> q.cols, frame |-> q.frame,
             result |-> fill_asupan(alias_totals(q.frame, q.cols))]
    /\ AliasFrame

NextAlias ==
    \/ \E k \in AkgKeys : CallSumByAlias(k)
    \/ CallFillAsupan

SpecAlias == InitAlias /\ [][NextAlias]_vars

\* the nutrient columns of a frame that an alias names, case left aside
NamedBy(cols, a) == {cols[i] : i \in {j \in 2..Len(cols) : CaseEq(cols[j], a)}}

MatchingAliases(cols, alias_list) ==
    {i \in 1..Len(alias_list) : NamedBy(cols, alias_list[i]) # {}}

FromOneColumn(frame, cols, alias_list, tot) ==
    IF MatchingAliases(cols, alias_list) = {} THEN IsNaN(tot)
    ELSE /\ \E c \in NamedBy(cols, alias_list[FirstOf(MatchingAliases(cols, alias_list))]) :
               tot = IdxSum(frame, c, DefinedIn(frame, c, MenusOf(frame)))
         /\ Cardinality(NamedBy(cols, alias_list[FirstOf(MatchingAliases(cols, alias_list))]))
            = 1
            => \A c \in NamedBy(cols,
                                alias_list[FirstOf(MatchingAliases(cols, alias_list))]) :
                  tot = IdxSum(frame, c, DefinedIn(frame, c, MenusOf(frame)))

\* C16: when the intake comes from the per-menu totals, each reference key takes its
\* value from exactly one column, the column that the earliest alias of the key's alias
\* list naming any column names, case left aside; columns named by later aliases add
\* nothing, and the values of several matching columns are never added together.
C16_EarliestAlias ==
    /\ q.fn = "sum_by_alias" => FromOneColumn(q.frame, q.cols, aliases(q.key), q.result)
    /\ q.fn = "fill_asupan"
       => \A k \in AkgKeys :
             MatchingAliases(q.cols, aliases(k)) # {}
             => FromOneColumn(q.frame, q.cols, aliases(k), q.result[k])

C16_Witness ==
    /\ q.fn = "sum_by_alias"
    /\ q.key = "Karbohidrat"
    /\ q.cols = <<"Nama Menu", "KH", "Karbohidrat">>
    /\ Len(q.frame) = 2
    /\ q.frame[1].nut["KH"] = Num(2) /\ q.frame[2].nut["KH"] = Num(2)
    /\ q.frame[1].nut["Karbohidrat"] = Num(1) /\ q.frame[2].nut["Karbohidrat"] = Num(2)
    /\ q.result = Num(3)

-----------------------------------------------------------------------------
(* Properties of the session *)

\* C17: a calculation pass that produces no corrected row, as when the ingredient of
\* every entry is unresolved, ends in the "nothing to compute" stop without raising and
\* without per-menu, adequacy or gap output, and leaves the menu list and the entry list
\* as they were.
C17_NothingToCompute ==
    (menus # <<>> /\ rows # <<>> /\ found_rows(tkpi_df, rows) = <<>>)
    => /\ view.status = "stop_no_result"
       /\ view.warnings = bahan_of(rows)

\* C18: add-entry never deduplicates: it appends exactly one entry at the end, also when
\* the entry equals one already in the list; the list grows by one and every entry
\* already in it keeps its value and its position.
C18_AddAppendsOne ==
    [][last_op'.kind = "add"
       => /\ Len(rows') = Len(rows) + 1
          /\ rows'[Len(rows')] = last_op'.e
          /\ \A i \in 1..Len(rows) : rows'[i] = rows[i]]_vars

C18_Witness ==
    /\ last_op.kind = "add"
    /\ Len(rows) = 2
    /\ rows[1] = rows[2]
    /\ rows[2] = last_op.e

\* C19: after any sequence of reset, add-menu, rename-menu, delete-menu, add-entry,
\* edit-entry and delete-entry the menu name of every entry is in the menu list.
C19_EntryMenusListed ==
    \A i \in 1..Len(rows) : rows[i].NamaMenu \in SeqToSet(menus)

C19_Witness ==
    /\ last_op.kind = "rename_menu"
    /\ menus = <<"b", "a">>
    /\ Len(rows) = 2
    /\ rows[1].NamaMenu = "b"
    /\ rows[2].NamaMenu = "a"

\* C20: after any sequence of reset, add-menu, rename-menu and delete-menu the menu list
\* holds no two equal names and no empty name.
C20_MenusUnique ==
    /\ \A i, j \in 1..Len(menus) : menus[i] = menus[j] => i = j
    /\ \A i \in 1..Len(menus) : menus[i] # ""

=============================================================================
